---- MODULE Spec2Model ----
(***************************************************************************)
(* Model of locai-cli/scripts/verify_embeddings.py:                        *)
(*   calculate_norm, validate_embedding, generate_mock_embedding and the   *)
(*   record loop of verify_quickstart_embeddings.                          *)
(*                                                                         *)
(* Python floats are modelled as decimal floating-point numbers with a     *)
(* four-digit significand, round-half-even, signed infinities and NaN:     *)
(*   [k |-> "fin", s |-> sign, m |-> significand, e |-> exponent]          *)
(* stands for s * m * 10^e, with 1000 <= m <= 9999 or m = 0.               *)
(* A raised Python exception is the value Err; it propagates through       *)
(* every arithmetic operator, as an exception unwinds an expression.       *)
(***************************************************************************)
EXTENDS Integers, Sequences, FiniteSets, TLC

VARIABLES vpc, embedding, vresult,
          gpc, text, dimensions, gresult,
          dpc, file, data, idx, valid_count, invalid_count, calls, counted

vars == <<vpc, embedding, vresult, gpc, text, dimensions, gresult,
          dpc, file, data, idx, valid_count, invalid_count, calls, counted>>

(***************************************************************************)
(* Bounds of the model.                                                    *)
(***************************************************************************)
MaxLen == 2

MaxTextLen == 2

MaxDim == 3

MaxRecords == 2

(***************************************************************************)
(* Floating-point values.                                                  *)
(***************************************************************************)
Fin(s, m, e) == [k |-> "fin", s |-> s, m |-> m, e |-> e]

Zero == Fin(1, 0, 0)

NaN == [k |-> "nan", s |-> 1, m |-> 0, e |-> 0]

PInf == [k |-> "inf", s |-> 1, m |-> 0, e |-> 0]

NInf == [k |-> "inf", s |-> -1, m |-> 0, e |-> 0]

Inf(s) == IF s = 1 THEN PInf ELSE NInf

Err == [k |-> "err", s |-> 1, m |-> 0, e |-> 0]

RECURSIVE Pow10(_)
Pow10(n) == IF n = 0 THEN 1 ELSE 10 * Pow10(n - 1)

RECURSIVE Digits(_)
Digits(n) == IF n < 10 THEN 1 ELSE 1 + Digits(n \div 10)

\* Round the exact value s * n * 10^e (n >= 0) to a four-digit significand,
\* ties to even; overflow gives an infinity, underflow gives zero.
Round(s, n, e) ==
  IF n = 0 THEN Zero
  ELSE LET d == Digits(n)
           q == IF d <= 4 THEN n * Pow10(4 - d)
                ELSE LET p == Pow10(d - 4)
                         t == n \div p
                         r == n % p
                     IN IF 2 * r > p \/ (2 * r = p /\ t % 2 = 1) THEN t + 1 ELSE t
           m == IF q = 10000 THEN 1000 ELSE q
           x == e + (d - 4) + (IF q = 10000 THEN 1 ELSE 0)
       IN IF x > 305 THEN Inf(s)
          ELSE IF x < -327 THEN Zero
          ELSE Fin(s, m, x)

FromInt(n) == IF n < 0 THEN Round(-1, -n, 0) ELSE Round(1, n, 0)

FNeg(a) == IF a.k \in {"inf", "fin"} /\ ~(a.k = "fin" /\ a.m = 0) THEN [a EXCEPT !.s = -a.s] ELSE a

FAbs(a) == IF a.k \in {"inf", "fin"} THEN [a EXCEPT !.s = 1] ELSE a

\* a < b on finite or infinite operands
LessOrd(a, b) ==
  LET rank(v) == IF v.k = "inf" THEN 3 * v.s
                 ELSE IF v.m = 0 THEN 0 ELSE v.s
  IN IF rank(a) # rank(b) THEN rank(a) < rank(b)
     ELSE IF a.k = "inf" \/ a.m = 0 THEN FALSE
     ELSE IF a.s = 1 THEN a.e < b.e \/ (a.e = b.e /\ a.m < b.m)
     ELSE a.e > b.e \/ (a.e = b.e /\ a.m > b.m)

\* Python's  a < b  and  a > b : False whenever an operand is NaN
FLt(a, b) == a.k # "nan" /\ b.k # "nan" /\ LessOrd(a, b)

FGt(a, b) == FLt(b, a)

isnan(a) == a.k = "nan"

isinf(a) == a.k = "inf"

FAdd(a, b) ==
  IF a.k = "err" \/ b.k = "err" THEN Err
  ELSE IF a.k = "nan" \/ b.k = "nan" THEN NaN
  ELSE IF a.k = "inf" /\ b.k = "inf" THEN (IF a.s = b.s THEN a ELSE NaN)
  ELSE IF a.k = "inf" THEN a
  ELSE IF b.k = "inf" THEN b
  ELSE IF a.m = 0 THEN b
  ELSE IF b.m = 0 THEN a
  ELSE LET hi == IF a.e >= b.e THEN a ELSE b
           lo == IF a.e >= b.e THEN b ELSE a
           d  == hi.e - lo.e
       IN IF d > 5 THEN hi
          ELSE LET n == hi.s * hi.m * Pow10(d) + lo.s * lo.m
               IN IF n < 0 THEN Round(-1, -n, lo.e) ELSE Round(1, n, lo.e)

FMul(a, b) ==
  IF a.k = "err" \/ b.k = "err" THEN Err
  ELSE IF a.k = "nan" \/ b.k = "nan" THEN NaN
  ELSE IF a.k = "inf" \/ b.k = "inf"
       THEN (IF (a.k = "fin" /\ a.m = 0) \/ (b.k = "fin" /\ b.m = 0) THEN NaN
             ELSE Inf(a.s * b.s))
  ELSE Round(a.s * b.s, a.m * b.m, a.e + b.e)

\* Python's  a / b : ZeroDivisionError when b is zero
FDiv(a, b) ==
  IF a.k = "err" \/ b.k = "err" THEN Err
  ELSE IF b.k = "fin" /\ b.m = 0 THEN Err
  ELSE IF a.k = "nan" \/ b.k = "nan" THEN NaN
  ELSE IF a.k = "inf" THEN (IF b.k = "inf" THEN NaN ELSE Inf(a.s * b.s))
  ELSE IF b.k = "inf" \/ a.m = 0 THEN Zero
  ELSE LET n == a.m * 100000
           q == n \div b.m
           t == IF n % b.m = 0 THEN 0 ELSE 1
       IN Round(a.s * b.s, 10 * q + t, a.e - b.e - 6)

RECURSIVE ISqrt(_, _, _)
\* the largest r in lo..hi with r * r <= n
ISqrt(n, lo, hi) ==
  IF lo = hi THEN lo
  ELSE LET mid == (lo + hi + 1) \div 2
       IN IF mid * mid <= n THEN ISqrt(n, mid, hi) ELSE ISqrt(n, lo, mid - 1)

\* square root of a positive finite value
SqrtFinite(a) ==
  LET even == a.e % 2 = 0
      n == IF even THEN a.m * 10000 ELSE a.m * 100000
      x == IF even THEN (a.e - 4) \div 2 ELSE (a.e - 5) \div 2
      r == ISqrt(n, 0, 31622)
      t == IF r * r = n THEN 0 ELSE 1
  IN Round(1, 10 * r + t, x - 1)

\* a square root that rejects every non-finite operand
sqrt_rejecting_nonfinite(a) ==
  IF a.k # "fin" THEN Err
  ELSE IF a.m = 0 THEN Zero
  ELSE IF a.s = -1 THEN Err
  ELSE SqrtFinite(a)

\* math.sqrt : ValueError (math domain error) on a negative operand
sqrt(a) ==
  IF a.k = "err" THEN Err
  ELSE IF a.k = "nan" THEN NaN
  ELSE IF a.k = "fin" /\ a.m = 0 THEN Zero
  ELSE IF a.s = -1 THEN Err
  ELSE IF a.k = "inf" THEN PInf
  ELSE SqrtFinite(a)

\* The float literals of the script
F0_9 == Fin(1, 9000, -4)

F1_1 == Fin(1, 1100, -3)

F10 == Fin(1, 1000, -2)

FNeg10 == Fin(-1, 1000, -2)

F1eNeg6 == Fin(1, 1000, -9)

F255 == Fin(1, 2550, -1)

F0_1 == Fin(1, 1000, -4)

F1000 == Fin(1, 1000, 0)

(***************************************************************************)
(* The loops of the script run left to right over the items lo..hi of a    *)
(* sequence.  Each loop operator splits its range in halves and finishes   *)
(* the left half first, which keeps the order of the Python iteration.     *)
(***************************************************************************)
RECURSIVE SumSquares(_, _, _, _)
\* sum(x * x for x in embedding), items lo..hi added to acc
SumSquares(v, lo, hi, acc) ==
  IF lo > hi THEN acc
  ELSE IF lo = hi THEN FAdd(acc, FMul(v[lo], v[lo]))
  ELSE LET mid  == (lo + hi) \div 2
           left == SumSquares(v, lo, mid, acc)
       IN IF left = left THEN SumSquares(v, mid + 1, hi, left) ELSE left

\* math.sqrt(sum(x * x for x in embedding))
calculate_norm(v) == sqrt(SumSquares(v, 1, Len(v), Zero))

RECURSIVE MinLoop(_, _, _, _)
\* an item replaces the running minimum only when  item < minimum  is True
MinLoop(v, lo, hi, acc) ==
  IF lo > hi THEN acc
  ELSE IF lo = hi THEN (IF FLt(v[lo], acc) THEN v[lo] ELSE acc)
  ELSE LET mid  == (lo + hi) \div 2
           left == MinLoop(v, lo, mid, acc)
       IN IF left = left THEN MinLoop(v, mid + 1, hi, left) ELSE left

RECURSIVE MaxLoop(_, _, _, _)
\* an item replaces the running maximum only when  item > maximum  is True
MaxLoop(v, lo, hi, acc) ==
  IF lo > hi THEN acc
  ELSE IF lo = hi THEN (IF FGt(v[lo], acc) THEN v[lo] ELSE acc)
  ELSE LET mid  == (lo + hi) \div 2
           left == MaxLoop(v, lo, mid, acc)
       IN IF left = left THEN MaxLoop(v, mid + 1, hi, left) ELSE left

\* min(embedding): ValueError on an empty sequence
min(v) == IF Len(v) = 0 THEN Err ELSE MinLoop(v, 2, Len(v), v[1])

\* max(embedding): ValueError on an empty sequence
max(v) == IF Len(v) = 0 THEN Err ELSE MaxLoop(v, 2, Len(v), v[1])

\* f"{x:.6}": the value written with six significant digits
Fmt6(x) == IF x.k = "fin" /\ x.m # 0 THEN [x EXCEPT !.m = x.m * 100, !.e = x.e - 2] ELSE x

ExpectedDim == 1024

Issue(type, n, a, b) == [type |-> type, n |-> n, a |-> a, b |-> b]

DimIssue(n) == Issue("dimension", n, Zero, Zero)

NaNIssue(i) == Issue("nan", i, Zero, Zero)

InfIssue(i) == Issue("inf", i, Zero, Zero)

NormIssue(norm) == Issue("norm", 0, Fmt6(norm), Zero)

RangeIssue(lo, hi) == Issue("range", 0, Fmt6(lo), Fmt6(hi))

ZeroIssue == Issue("zero", 0, Zero, Zero)

\* the dimension test written as "too short"
CheckDimensions_short_only(v) ==
  IF Len(v) < ExpectedDim THEN <<DimIssue(Len(v))>> ELSE <<>>

\* line 19-20
CheckDimensions(v) ==
  IF Len(v) # ExpectedDim THEN <<DimIssue(Len(v))>> ELSE <<>>

\* the infinity test written as a comparison with +Infinity
FiniteStep_positive_inf_only(issues, i, val) ==
  issues \o (IF isnan(val) THEN <<NaNIssue(i)>> ELSE <<>>)
         \o (IF val = PInf THEN <<InfIssue(i)>> ELSE <<>>)

\* line 24-27, one iteration
FiniteStep(issues, i, val) ==
  issues \o (IF isnan(val) THEN <<NaNIssue(i)>> ELSE <<>>)
         \o (IF isinf(val) THEN <<InfIssue(i)>> ELSE <<>>)

RECURSIVE FiniteLoop(_, _, _, _)
\* line 23-27 over the items lo..hi; enumerate() counts from 0
FiniteLoop(v, lo, hi, issues) ==
  IF lo > hi THEN issues
  ELSE IF lo = hi THEN FiniteStep(issues, lo - 1, v[lo])
  ELSE LET mid  == (lo + hi) \div 2
           left == FiniteLoop(v, lo, mid, issues)
       IN IF left = left THEN FiniteLoop(v, mid + 1, hi, left) ELSE left

\* line 22-27
CheckFinite(v) == FiniteLoop(v, 1, Len(v), <<>>)

\* the norm test with the bounds excluded from the accepted interval
CheckNorm_exclusive(norm) ==
  IF FLt(norm, F0_9) \/ FGt(norm, F1_1) \/ norm = F0_9 \/ norm = F1_1
  THEN <<NormIssue(norm)>> ELSE <<>>

\* line 31-32
CheckNorm(norm) ==
  IF FLt(norm, F0_9) \/ FGt(norm, F1_1) THEN <<NormIssue(norm)>> ELSE <<>>

\* line 37-38
CheckRange(min_val, max_val) ==
  IF FLt(min_val, FNeg10) \/ FGt(max_val, F10)
  THEN <<RangeIssue(min_val, max_val)>> ELSE <<>>

\* the degeneracy test written as an exact comparison with zero
CheckAllZero_exact(v) ==
  IF \A i \in 1..Len(v) : v[i] = Zero THEN <<ZeroIssue>> ELSE <<>>

\* line 41-43
CheckAllZero(v) ==
  IF \A i \in 1..Len(v) : FLt(FAbs(v[i]), F1eNeg6) THEN <<ZeroIssue>> ELSE <<>>

Raised(issues) == [raised |-> TRUE, valid |-> FALSE, issues |-> issues]

Returned(issues) == [raised |-> FALSE, valid |-> Len(issues) = 0, issues |-> issues]

\* validate_embedding(embedding).  The outcome is either the returned pair
\* (valid, issues), or a raised exception together with the local list
\* `issues` as it stood when the exception left the function.
validate_embedding(v) ==
  LET issues2 == CheckDimensions(v) \o CheckFinite(v)
      norm    == calculate_norm(v)
      issues3 == issues2 \o CheckNorm(norm)
      min_val == min(v)
      max_val == max(v)
      issues4 == issues3 \o CheckRange(min_val, max_val)
      issues5 == issues4 \o CheckAllZero(v)
  IN IF norm.k = "err" THEN Raised(issues2)
     ELSE IF min_val.k = "err" \/ max_val.k = "err" THEN Raised(issues3)
     ELSE Returned(issues5)

(***************************************************************************)
(* generate_mock_embedding(text, dimensions).  A text is the sequence of   *)
(* its code points.                                                        *)
(***************************************************************************)
ord(c) == c

RECURSIVE SumOrd(_)
\* sum(ord(c) for c in text)
SumOrd(t) == IF Len(t) = 0 THEN 0 ELSE ord(Head(t)) + SumOrd(Tail(t))

\* line 112-115, one iteration; i counts from 0.  i % 0 raises
\* ZeroDivisionError.
AddChar(acc, i, c, dims) ==
  IF acc.raised THEN acc
  ELSE IF dims = 0 THEN [acc EXCEPT !.raised = TRUE]
  ELSE LET index    == i % dims
           char_val == ord(c) % 255
           term     == FMul(FDiv(FromInt(char_val), F255), F0_1)
       IN [acc EXCEPT !.v[index + 1] = FAdd(@, term)]

RECURSIVE CharLoop(_, _, _, _, _)
\* line 112-115 over the characters lo..hi of the text
CharLoop(t, dims, lo, hi, acc) ==
  IF lo > hi THEN acc
  ELSE IF lo = hi THEN AddChar(acc, lo - 1, t[lo], dims)
  ELSE LET mid  == (lo + hi) \div 2
           left == CharLoop(t, dims, lo, mid, acc)
       IN IF left = left THEN CharLoop(t, dims, mid + 1, hi, left) ELSE left

\* the hash term without the index
AddHash_no_index(v, text_hash, dims) ==
  [i \in 1..dims |-> FAdd(v[i], FDiv(FromInt(text_hash % 100), F1000))]

\* line 118-120
AddHash(v, text_hash, dims) ==
  [i \in 1..dims |-> FAdd(v[i], FDiv(FromInt(((i - 1) + text_hash) % 100), F1000))]

\* line 123-125
Normalize(v, norm) ==
  IF FGt(norm, Zero) THEN [i \in 1..Len(v) |-> FDiv(v[i], norm)] ELSE v

\* The outcome is the returned vector `out`, with the vector `pre` and its
\* norm as they stood before the normalization step, or a raised exception.
generate_mock_embedding(t, dims) ==
  LET zeros == [i \in 1..dims |-> Zero]
      chars == CharLoop(t, dims, 1, Len(t), [raised |-> FALSE, v |-> zeros])
      pre   == AddHash(chars.v, SumOrd(t), dims)
      norm  == calculate_norm(pre)
      out   == Normalize(pre, norm)
  IN IF chars.raised
     THEN [raised |-> TRUE, pre |-> <<>>, norm |-> Zero, normalized |-> FALSE, out |-> <<>>]
     ELSE IF norm.k = "err" \/ \E i \in 1..dims : out[i].k = "err"
     THEN [raised |-> TRUE, pre |-> pre, norm |-> norm, normalized |-> FALSE, out |-> <<>>]
     ELSE [raised |-> FALSE, pre |-> pre, norm |-> norm,
           normalized |-> FGt(norm, Zero), out |-> out]

(***************************************************************************)
(* Inputs.                                                                 *)
(***************************************************************************)
SeqsUpTo(S, n) == UNION {[1..k -> S] : k \in 0..n}

Tiny == Fin(1, 5000, -10)

Huge == Fin(1, 1000, 197)

Vals == {Zero, Tiny, FNeg(Tiny), F1eNeg6,
         Fin(1, 5000, -4), Fin(1, 5400, -4), Fin(1, 7200, -4), Fin(1, 8999, -4),
         F0_9, Fin(1, 1000, -3), F1_1, Fin(1, 1101, -3), Fin(1, 1500, -3),
         F10, FNeg10, Fin(1, 1500, -2), Fin(-1, 1500, -2),
         NaN, PInf, NInf, Huge}

\* one leading value followed by a constant padding
Padded(a, pad, n) == [i \in 1..n |-> IF i = 1 THEN a ELSE pad]

LongVectors ==
  {Padded(a, pad, n) : a \in Vals, pad \in {Zero, Tiny},
                       n \in {ExpectedDim - 1, ExpectedDim, ExpectedDim + 1}}

InputVectors == SeqsUpTo(Vals, MaxLen) \cup LongVectors

Chars == {0, 97, 100, 255}

Warrior == <<119, 97, 114, 114, 105, 111, 114>>

TestText == <<116, 101, 115, 116, 32, 116, 101, 120, 116>>

Texts == SeqsUpTo(Chars, MaxTextLen) \cup {Warrior, TestText}

Dims == 0..MaxDim \cup {ExpectedDim}

NoVResult == [raised |-> FALSE, valid |-> FALSE, issues |-> <<>>]

NoGResult == [raised |-> FALSE, pre |-> <<>>, norm |-> Zero, normalized |-> FALSE, out |-> <<>>]

ValidatorIdle == vpc = "idle" /\ embedding = <<>> /\ vresult = NoVResult

GeneratorIdle == gpc = "idle" /\ text = <<>> /\ dimensions = 0 /\ gresult = NoGResult

DriverIdle == /\ dpc = "idle" /\ file = "ok" /\ data = <<>> /\ idx = 0
              /\ valid_count = 0 /\ invalid_count = 0 /\ calls = <<>> /\ counted = <<>>

vvars == <<vpc, embedding, vresult>>

gvars == <<gpc, text, dimensions, gresult>>

dvars == <<dpc, file, data, idx, valid_count, invalid_count, calls, counted>>

(***************************************************************************)
(* A call of validate_embedding on an arbitrary vector.                    *)
(***************************************************************************)
InitValidate == /\ vpc = "call" /\ embedding \in InputVectors /\ vresult = NoVResult
                /\ GeneratorIdle /\ DriverIdle

ValidateReturns ==
  /\ vpc = "call"
  /\ ~validate_embedding(embedding).raised
  /\ vresult' = validate_embedding(embedding)
  /\ vpc' = "returned"
  /\ UNCHANGED <<embedding, gvars, dvars>>

ValidateRaises ==
  /\ vpc = "call"
  /\ validate_embedding(embedding).raised
  /\ vresult' = validate_embedding(embedding)
  /\ vpc' = "raised"
  /\ UNCHANGED <<embedding, gvars, dvars>>

NextValidate == ValidateReturns \/ ValidateRaises

SpecValidate == InitValidate /\ [][NextValidate]_vars

(***************************************************************************)
(* A call of generate_mock_embedding.                                      *)
(***************************************************************************)
InitGenerate == /\ gpc = "call" /\ text \in Texts /\ dimensions \in Dims
                /\ gresult = NoGResult
                /\ ValidatorIdle /\ DriverIdle

GenerateReturns ==
  /\ gpc = "call"
  /\ ~generate_mock_embedding(text, dimensions).raised
  /\ gresult' = generate_mock_embedding(text, dimensions)
  /\ gpc' = "returned"
  /\ UNCHANGED <<text, dimensions, vvars, dvars>>

GenerateRaises ==
  /\ gpc = "call"
  /\ generate_mock_embedding(text, dimensions).raised
  /\ gresult' = generate_mock_embedding(text, dimensions)
  /\ gpc' = "raised"
  /\ UNCHANGED <<text, dimensions, vvars, dvars>>

NextGenerate == GenerateReturns \/ GenerateRaises

SpecGenerate == InitGenerate /\ [][NextGenerate]_vars

(***************************************************************************)
(* verify_quickstart_embeddings.  A JSON number is an integer n * 10^e or  *)
(* a float; a record is a JSON object that may lack either field.          *)
(***************************************************************************)
JInt(n, e) == [json |-> "int", n |-> n, e |-> e, v |-> Zero]

JFloat(v) == [json |-> "float", n |-> 0, e |-> 0, v |-> v]

\* float(x): an integer is rounded to the nearest float; OverflowError
\* when it is too large
float(x) ==
  IF x.json = "float" THEN x.v
  ELSE LET r == IF x.n < 0 THEN Round(-1, -x.n, x.e) ELSE Round(1, x.n, x.e)
       IN IF r.k = "inf" THEN Err ELSE r

\* line 78
ToFloats(raw) == [i \in 1..Len(raw) |-> float(raw[i])]

ConversionRaises(raw) == \E i \in 1..Len(raw) : float(raw[i]).k = "err"

Record(has_text, t, has_embedding, raw) ==
  [has_text |-> has_text, text |-> t, has_embedding |-> has_embedding, embedding |-> raw]

\* item.get("text", "")
GetText(item) == IF item.has_text THEN item.text ELSE <<>>

\* item.get("embedding", [])
GetEmbedding(item) == IF item.has_embedding THEN item.embedding ELSE <<>>

\* the test of line 72 written with `and`
Missing_both(t, raw) == Len(t) = 0 /\ Len(raw) = 0

\* line 72:  not text or not embedding_raw
Missing(t, raw) == Len(t) = 0 \/ Len(raw) = 0

RawEmbeddings ==
  { <<>>,
    <<JFloat(NaN), JFloat(Fin(1, 1500, -2))>>,
    <<JInt(1, 0), JInt(1, 400)>>,
    Padded(JInt(1, 0), JFloat(Zero), ExpectedDim) }

Records ==
  {Record(TRUE, t, TRUE, raw) : t \in {<<>>, <<97>>}, raw \in RawEmbeddings}
  \cup {Record(FALSE, <<>>, TRUE, raw) : raw \in RawEmbeddings}
  \cup {Record(TRUE, t, FALSE, <<>>) : t \in {<<>>, <<97>>}}

InitDriver ==
  /\ dpc = "start"
  /\ file \in {"ok", "absent", "malformed"}
  /\ data \in (IF file = "ok" THEN SeqsUpTo(Records, MaxRecords) ELSE {<<>>})
  /\ idx = 0 /\ valid_count = 0 /\ invalid_count = 0
  /\ calls = <<>> /\ counted = <<>>
  /\ ValidatorIdle /\ GeneratorIdle

\* line 54-56
FileNotFound ==
  /\ dpc = "start" /\ file = "absent"
  /\ dpc' = "returned"
  /\ UNCHANGED <<file, data, idx, valid_count, invalid_count, calls, counted, vvars, gvars>>

\* line 59-60, 102-103
JsonDecodeError ==
  /\ dpc = "start" /\ file = "malformed"
  /\ dpc' = "error"
  /\ UNCHANGED <<file, data, idx, valid_count, invalid_count, calls, counted, vvars, gvars>>

\* line 59-66
Loaded ==
  /\ dpc = "start" /\ file = "ok"
  /\ dpc' = "loop"
  /\ idx' = 0 /\ valid_count' = 0 /\ invalid_count' = 0
  /\ UNCHANGED <<file, data, calls, counted, vvars, gvars>>

\* line 72-75 and 80-83: the record is reported and counted invalid
SkipIncomplete ==
  /\ dpc = "loop" /\ idx < Len(data)
  /\ LET item == data[idx + 1]
         raw  == GetEmbedding(item)
     IN \/ Missing(GetText(item), raw)
        \/ (~ConversionRaises(raw) /\ Len(ToFloats(raw)) = 0)
  /\ invalid_count' = invalid_count + 1
  /\ counted' = Append(counted, "invalid")
  /\ idx' = idx + 1
  /\ UNCHANGED <<dpc, file, data, valid_count, calls, vvars, gvars>>

\* line 78, 104-105: float() raises, the handler reports the error and the
\* function ends without a summary
ConversionError ==
  /\ dpc = "loop" /\ idx < Len(data)
  /\ LET item == data[idx + 1]
         raw  == GetEmbedding(item)
     IN ~Missing(GetText(item), raw) /\ ConversionRaises(raw)
  /\ dpc' = "error"
  /\ UNCHANGED <<file, data, idx, valid_count, invalid_count, calls, counted, vvars, gvars>>

\* line 85-98
ValidateRecord ==
  /\ dpc = "loop" /\ idx < Len(data)
  /\ LET item == data[idx + 1]
         raw  == GetEmbedding(item)
         v    == ToFloats(raw)
         r    == validate_embedding(v)
     IN /\ ~Missing(GetText(item), raw)
        /\ ~ConversionRaises(raw)
        /\ Len(v) # 0
        /\ calls' = Append(calls, [rec |-> idx + 1, embedding |-> v])
        /\ IF r.raised
           THEN /\ dpc' = "error"
                /\ UNCHANGED <<idx, valid_count, invalid_count, counted>>
           ELSE /\ dpc' = dpc
                /\ idx' = idx + 1
                /\ valid_count' = IF r.valid THEN valid_count + 1 ELSE valid_count
                /\ invalid_count' = IF r.valid THEN invalid_count ELSE invalid_count + 1
                /\ counted' = Append(counted, IF r.valid THEN "valid" ELSE "invalid")
  /\ UNCHANGED <<file, data, vvars, gvars>>

\* line 100
Summary ==
  /\ dpc = "loop" /\ idx = Len(data)
  /\ dpc' = "summary"
  /\ UNCHANGED <<file, data, idx, valid_count, invalid_count, calls, counted, vvars, gvars>>

NextDriver ==
  \/ FileNotFound \/ JsonDecodeError \/ Loaded
  \/ SkipIncomplete \/ ConversionError \/ ValidateRecord \/ Summary

SpecDriver == InitDriver /\ [][NextDriver]_vars

(***************************************************************************)
(* Properties of validate_embedding (specification SpecValidate).          *)
(***************************************************************************)
HasIssue(issues, t) == \E j \in 1..Len(issues) : issues[j].type = t

Count(issues, x) == Cardinality({j \in 1..Len(issues) : issues[j] = x})

Kinds(issues) == [j \in 1..Len(issues) |-> <<issues[j].type, issues[j].n>>]

IsFinite(x) == x.k = "fin"

IsTiny(x) == IsFinite(x) /\ LessOrd(FAbs(x), F1eNeg6)

AllTiny(v) == \A i \in 1..Len(v) : IsTiny(v[i])

OutOfRange(x) == x.k \in {"fin", "inf"} /\ (LessOrd(x, FNeg10) \/ LessOrd(F10, x))

NormOutside(n) == n.k \in {"fin", "inf"} /\ (LessOrd(n, F0_9) \/ LessOrd(F1_1, n))

\* the issues section 4.1 prescribes, by kind, in the order of the checks
ExpectedKinds(v) ==
  (IF Len(v) # ExpectedDim THEN <<(<<"dimension", Len(v)>>)>> ELSE <<>>)
  \o LET bad == {i \in 1..Len(v) : v[i].k \in {"nan", "inf"}}
     IN [j \in 1..Cardinality(bad) |->
           LET i == CHOOSE x \in bad : Cardinality({y \in bad : y < x}) = j - 1
           IN <<v[i].k, i - 1>>]
  \o (IF NormOutside(calculate_norm(v)) THEN <<(<<"norm", 0>>)>> ELSE <<>>)
  \o (IF \E i \in 1..Len(v) : OutOfRange(v[i]) THEN <<(<<"range", 0>>)>> ELSE <<>>)
  \o (IF AllTiny(v) THEN <<(<<"zero", 0>>)>> ELSE <<>>)

\* C1 (as stated): validate_embedding never raises, whatever the length of
\* the vector (zero included) and whatever its elements.
C1_NeverRaises == vpc # "raised"

\* C1 (amended): for every vector of one or more elements (finite, NaN or
\* infinite) the call completes and returns a (verdict, issue list) pair.
C1_NonEmptyNeverRaises ==
  (vpc # "call" /\ Len(embedding) >= 1)
    => /\ vpc = "returned"
       /\ ~vresult.raised
       /\ vresult.valid \in BOOLEAN
       /\ \A j \in 1..Len(vresult.issues) :
            vresult.issues[j].type \in {"dimension", "nan", "inf", "norm", "range", "zero"}

C1_Witness ==
  /\ vpc = "returned"
  /\ Len(embedding) = 2
  /\ \E i, j \in 1..Len(embedding) : isnan(embedding[i]) /\ isinf(embedding[j])

\* C2: all five checks run and the returned list holds, in the order
\* dimension, finiteness by ascending index, norm, range, degeneracy, the
\* issue of every check the vector violates; the verdict is valid exactly
\* when the list is empty.
C2_AllChecksReported ==
  vpc = "returned"
    => /\ Kinds(vresult.issues) = ExpectedKinds(embedding)
       /\ vresult.valid <=> (vresult.issues = <<>>)

\* C3 (as stated): every vector whose length is not 1024 gets an invalid
\* verdict whose issues contain the dimension issue with the actual length.
C3_DimensionMismatch ==
  (vpc # "call" /\ Len(embedding) # ExpectedDim)
    => /\ vpc = "returned"
       /\ ~vresult.valid
       /\ Count(vresult.issues, DimIssue(Len(embedding))) = 1

\* C3 (amended): every non-empty vector whose length is not 1024 gets an
\* invalid verdict whose issues contain the dimension issue with the
\* actual length.
C3_NonEmptyDimensionMismatch ==
  (vpc # "call" /\ Len(embedding) # ExpectedDim /\ Len(embedding) >= 1)
    => /\ vpc = "returned"
       /\ ~vresult.valid
       /\ Count(vresult.issues, DimIssue(Len(embedding))) = 1

C3_Witness ==
  /\ vpc = "returned"
  /\ Len(embedding) = ExpectedDim + 1
  /\ vresult.issues[1] = DimIssue(ExpectedDim + 1)

\* C4: a vector with a NaN or infinite element is invalid, and its issues
\* hold one NaN issue for each index whose element is NaN, one Infinite
\* issue for each index whose element is +Infinity or -Infinity, and no
\* finiteness issue for any other index.
C4_FinitenessIssues ==
  vpc # "call"
    => /\ (\E i \in 1..Len(embedding) : embedding[i].k \in {"nan", "inf"})
            => (vpc = "returned" /\ ~vresult.valid)
       /\ \A i \in 0..Len(embedding) :
            /\ Count(vresult.issues, NaNIssue(i))
                 = (IF i < Len(embedding) /\ embedding[i + 1].k = "nan" THEN 1 ELSE 0)
            /\ Count(vresult.issues, InfIssue(i))
                 = (IF i < Len(embedding) /\ embedding[i + 1].k = "inf" THEN 1 ELSE 0)
       /\ \A j \in 1..Len(vresult.issues) :
            vresult.issues[j].type \in {"nan", "inf"}
              => vresult.issues[j].n \in 0..(Len(embedding) - 1)

C4_Witness ==
  /\ vpc = "returned"
  /\ Len(embedding) = 2
  /\ \E i, j \in 1..Len(embedding) : embedding[i] = NaN /\ embedding[j] = NInf
  /\ Len(vresult.issues) >= 3

\* C5: the norm issue is recorded exactly when the L2 norm is < 0.9 or
\* > 1.1; a norm in [0.9, 1.1], both bounds included, gives no norm issue.
C5_NormBounds ==
  vpc # "call"
    => LET n == calculate_norm(embedding)
       IN IF NormOutside(n)
          THEN Count(vresult.issues, NormIssue(n)) = 1
          ELSE ~HasIssue(vresult.issues, "norm")

C5_Witness ==
  /\ vpc = "returned"
  /\ Len(embedding) = 2
  /\ calculate_norm(embedding) = F0_9
  /\ ~HasIssue(vresult.issues, "norm")

\* C6 (as stated): 1024 zeros give exactly the norm issue followed by the
\* degeneracy issue, and every vector whose elements all have absolute
\* value < 1e-6 gets both the norm issue and the degeneracy issue.
C6_AllZero ==
  vpc # "call"
    => /\ embedding = [i \in 1..ExpectedDim |-> Zero]
            => /\ vpc = "returned" /\ ~vresult.valid
               /\ vresult.issues = <<NormIssue(Zero), ZeroIssue>>
       /\ AllTiny(embedding)
            => /\ vpc = "returned"
               /\ HasIssue(vresult.issues, "norm")
               /\ HasIssue(vresult.issues, "zero")

\* C6 (amended): 1024 zeros give exactly the norm issue followed by the
\* degeneracy issue, and every non-empty vector whose elements all have
\* absolute value < 1e-6 gets both the norm issue and the degeneracy issue.
C6_NonEmptyAllZero ==
  vpc # "call"
    => /\ embedding = [i \in 1..ExpectedDim |-> Zero]
            => /\ vpc = "returned" /\ ~vresult.valid
               /\ vresult.issues = <<NormIssue(Zero), ZeroIssue>>
       /\ (AllTiny(embedding) /\ Len(embedding) >= 1)
            => /\ vpc = "returned"
               /\ HasIssue(vresult.issues, "norm")
               /\ HasIssue(vresult.issues, "zero")

C6_Witness ==
  /\ vpc = "returned"
  /\ Len(embedding) = ExpectedDim
  /\ AllTiny(embedding)
  /\ embedding[1] = Tiny
  /\ Len(vresult.issues) = 2

(***************************************************************************)
(* Properties of generate_mock_embedding (specification SpecGenerate).     *)
(***************************************************************************)
NearOne(n) == IsFinite(n) /\ ~LessOrd(n, Fin(1, 9900, -4)) /\ ~LessOrd(Fin(1, 1010, -3), n)

NonDegenerate ==
  /\ gpc = "returned"
  /\ \E i \in 1..dimensions : gresult.pre[i] # Zero
  /\ FGt(gresult.norm, Zero)
  /\ gresult.normalized
  /\ NearOne(calculate_norm(gresult.out))
  /\ \E i \in 1..dimensions : gresult.out[i] # Zero

\* C8 (as stated): for every text and every dimensions >= 1 the vector of
\* steps 1-4 has a nonzero element, its norm is > 0, the normalization
\* branch is taken and the result is unit-norm and not all-zero.
C8_NonzeroFromOne == (gpc # "call" /\ dimensions >= 1) => NonDegenerate

\* C8 (amended): the same for every text and every dimensions >= 2.
C8_NonzeroFromTwo == (gpc # "call" /\ dimensions >= 2) => NonDegenerate

C8_Witness ==
  /\ gpc = "returned"
  /\ text = <<>>
  /\ dimensions = 2
  /\ gresult.pre[1] = Zero
  /\ gresult.normalized

\* C9: generate_mock_embedding never raises and returns exactly
\* `dimensions` finite elements, for every text and every dimensions >= 0.
C9_TotalAndFinite ==
  gpc # "call"
    => /\ gpc = "returned"
       /\ Len(gresult.out) = dimensions
       /\ \A i \in 1..dimensions : IsFinite(gresult.out[i])

(***************************************************************************)
(* Properties of the record loop (specification SpecDriver).               *)
(***************************************************************************)
Incomplete(item) ==
  \/ ~item.has_text \/ item.text = <<>>
  \/ ~item.has_embedding \/ item.embedding = <<>>

Convertible(item) ==
  \A i \in 1..Len(item.embedding) :
    item.embedding[i].json = "int" => item.embedding[i].e <= 300

CallsFor(j) == {c \in 1..Len(calls) : calls[c].rec = j}

\* record j was skipped and counted invalid, or validated once and counted
Accounted(j) ==
  IF Incomplete(data[j])
  THEN CallsFor(j) = {} /\ counted[j] = "invalid"
  ELSE /\ Cardinality(CallsFor(j)) = 1
       /\ \A c \in CallsFor(j) : Len(calls[c].embedding) = Len(data[j].embedding)
       /\ counted[j] \in {"valid", "invalid"}

CountsAgree ==
  /\ Len(counted) = idx
  /\ valid_count = Cardinality({j \in 1..idx : counted[j] = "valid"})
  /\ invalid_count = Cardinality({j \in 1..idx : counted[j] = "invalid"})
  /\ \A c \in 1..Len(calls) : Len(calls[c].embedding) >= 1

\* C10 (as stated): every incomplete record adds one to the invalid count
\* and is not validated, every other record is validated once and adds one
\* to exactly one count, the validator only sees non-empty vectors, and
\* the reported counts add up to the number of records.
C10_EveryRecordCounted ==
  /\ CountsAgree
  /\ dpc \in {"summary", "error"} /\ file = "ok"
       => /\ idx = Len(data)
          /\ \A j \in 1..Len(data) : Accounted(j)
          /\ valid_count + invalid_count = Len(data)

\* C10 (amended): the same for every record reached by the loop; a
\* complete record with an element that float() rejects ends the loop
\* there, nothing is counted for it and no summary is reported.
C10_ConvertibleRecordsCounted ==
  /\ CountsAgree
  /\ \A j \in 1..idx : Accounted(j)
  /\ dpc = "summary"
       => idx = Len(data) /\ valid_count + invalid_count = Len(data)
  /\ dpc = "error" /\ file = "ok"
       => /\ idx < Len(data)
          /\ ~Incomplete(data[idx + 1])
          /\ ~Convertible(data[idx + 1])

C10_Witness ==
  /\ dpc = "summary"
  /\ valid_count = 1 /\ invalid_count = 1
  /\ Incomplete(data[1])
  /\ Len(calls) = 1

====
